---- MODULE Spec2Model ----
(***************************************************************************)
(* Device capability profiler (src/common/profiler.h, profiler.cpp):       *)
(* the device_info record, the serialize/deserialize codec over a byte     *)
(* buffer, the disk and memory bandwidth benchmarks and the OS queries.    *)
(*                                                                         *)
(* Memory is modelled as a heap of blocks of bytes; a pointer is a block   *)
(* id with an offset.  Every numeric field is held as its object           *)
(* representation (little-endian bytes), which is what memcpy moves.       *)
(***************************************************************************)
EXTENDS Integers, Sequences, FiniteSets, TLC

VARIABLES
    heap,       \* sequence of memory blocks [live, kind, bytes]
    src,        \* the device_info handed to serialize
    dst,        \* the device_info handed to deserialize
    buf,        \* *buffer as set by serialize
    ser_n,      \* the size_t serialize returned
    ser_log,    \* the memcpy calls of serialize: <<offset, n>> in order
    de_log,     \* the memcpy reads of deserialize from the buffer: <<offset, n>>
    pc,         \* position of the codec caller
    buf_state,  \* what the caller has done with the buffer since serialize
    ndecodes,   \* deserialize calls made on dst
    wordsize,   \* sizeof(size_t) of the build
    bench,      \* the last benchmark call: arguments, environment, result
    ncalls,     \* benchmark calls made so far
    os          \* the last OS query: platform, environment, result

vars == <<heap, src, dst, buf, ser_n, ser_log, de_log, pc, buf_state,
          ndecodes, wordsize, bench, ncalls, os>>

codec_vars == <<heap, src, dst, buf, ser_n, ser_log, de_log, pc, buf_state,
                ndecodes, wordsize>>

-----------------------------------------------------------------------------
(* Bounds *)

MaxStrLen == 1
MaxDecodes == 2
MaxBufMb == 1
MaxFileMb == 1
MaxTicks == 2
MaxCalls == 2
MaxCores == 3
MaxKb == 2

-----------------------------------------------------------------------------
(* Bytes and object representations *)

\* an uninitialised byte, or one read outside a block
Poison == -1

\* a length that does not fit the model (a garbage length prefix)
Garbage == -1

\* the w-byte little-endian two's-complement representation of x, |x| < 2^24
LEBytes(x, w) ==
    [i \in 1..w |-> IF i <= 3 THEN (x \div (256 ^ (i - 1))) % 256
                    ELSE IF x < 0 THEN 255 ELSE 0]

FromLE(bs) ==
    IF \E i \in 1..Len(bs) : bs[i] = Poison \/ (i > 3 /\ bs[i] # 0)
    THEN Garbage
    ELSE bs[1] + 256 * bs[2] + 65536 * bs[3]

U32(x) == LEBytes(x, 4)
I64(x) == LEBytes(x, 8)

\* IEEE-754 single precision bit patterns of 0.0f, 1.0f and 2.0f
F0 == <<0, 0, 0, 0>>
F1 == <<0, 0, 128, 63>>
F2 == <<0, 0, 0, 64>>

BoolByte(b) == IF b THEN 1 ELSE 0
ByteBool(x) == x # 0

RECURSIVE Concat(_)
Concat(ss) == IF ss = <<>> THEN <<>> ELSE Head(ss) \o Concat(Tail(ss))

-----------------------------------------------------------------------------
(* Memory *)

NULL == [b |-> 0, o |-> 0]
Ptr(b) == [b |-> b, o |-> 0]

\* the string literal "" of the constructors' initialiser lists
EmptyLit == Ptr(1)

Block(kind, bytes) == [live |-> TRUE, kind |-> kind, bytes |-> bytes]

malloc(h, n) == Append(h, Block("malloc", [i \in 1..n |-> Poison]))

Valid(h, p) == p.b \in 1..Len(h) /\ h[p.b].live

\* memcpy source: n bytes at p; a byte outside a live block is Poison
MemRead(h, p, n) ==
    [i \in 1..n |->
        IF Valid(h, p) /\ p.o + i \in 1..Len(h[p.b].bytes)
        THEN h[p.b].bytes[p.o + i] ELSE Poison]

\* memcpy destination: data written at p, bytes falling outside the block lost
MemWrite(h, p, data) ==
    IF ~Valid(h, p) THEN h
    ELSE [h EXCEPT ![p.b].bytes =
            [i \in 1..Len(@) |->
                IF i - p.o \in 1..Len(data) THEN data[i - p.o] ELSE @[i]]]

\* strlen: the bytes before the first NUL at or after p; Garbage when the scan
\* leaves the block or meets an uninitialised byte first
strlen(h, p) ==
    IF ~Valid(h, p) THEN Garbage
    ELSE LET bytes == h[p.b].bytes
             stop  == {i \in (p.o + 1)..Len(bytes) : bytes[i] \in {0, Poison}}
         IN  IF stop = {} THEN Garbage
             ELSE LET first == CHOOSE i \in stop : \A j \in stop : i <= j
                  IN  IF bytes[first] = Poison THEN Garbage ELSE first - p.o - 1

\* what reading a string through a null, dangling or unterminated pointer gives
BadStr == <<Poison>>

\* the contents of the C string at p (without the NUL), or BadStr
CStr(h, p) ==
    LET n == strlen(h, p) IN
    IF n = Garbage THEN BadStr ELSE [i \in 1..n |-> h[p.b].bytes[p.o + i]]

-----------------------------------------------------------------------------
(* The record: profiler.h *)

cpu_props ==
    [name |-> EmptyLit, description |-> EmptyLit, cores |-> U32(0),
     flops_f32_f32 |-> F0, flops_f16_f32 |-> F0, flops_q4k_f32 |-> F0,
     flops_q6k_f32 |-> F0, flops_q80_f32 |-> F0]

memory_info ==
    [total_physical |-> F0, available_physical |-> F0, total_swap |-> F0,
     available_swap |-> F0, cpu_read_ram_bw |-> F0]

gpu_support ==
    [metal |-> FALSE, cuda |-> FALSE, vulkan |-> FALSE, kompute |-> FALSE,
     gpublas |-> FALSE, blas |-> FALSE, sycl |-> FALSE]

gpu_props ==
    [name |-> EmptyLit, description |-> EmptyLit,
     memory_free |-> F0, memory_total |-> F0,
     metal_read_vram_bw |-> F0, metal_flops_f32_f32 |-> F0,
     metal_flops_f16_f32 |-> F0, metal_flops_q4k_f32 |-> F0,
     metal_flops_q6k_f32 |-> F0, metal_flops_q80_f32 |-> F0,
     cuda_read_vram_bw |-> F0, cuda_flops_f32_f32 |-> F0,
     cuda_flops_f16_f32 |-> F0, cuda_flops_q4k_f32 |-> F0,
     cuda_flops_q6k_f32 |-> F0, cuda_flops_q80_f32 |-> F0]

model_flops ==
    [inp_embd_ms |-> F0,
     output_f32_f32 |-> I64(0), output_f16_f32 |-> I64(0),
     output_q4k_f32 |-> I64(0), output_q6k_f32 |-> I64(0),
     output_q80_f32 |-> I64(0),
     layer_f32_f32 |-> I64(0), layer_f16_f32 |-> I64(0),
     layer_q4k_f32 |-> I64(0), layer_q6k_f32 |-> I64(0),
     layer_q80_f32 |-> I64(0)]

model_params ==
    [input_f32 |-> I64(0), input_f16 |-> I64(0), input_q4k |-> I64(0),
     input_q6k |-> I64(0), input_q80 |-> I64(0),
     output_f32 |-> I64(0), output_f16 |-> I64(0), output_q4k |-> I64(0),
     output_q6k |-> I64(0), output_q80 |-> I64(0),
     layer_f32 |-> I64(0), layer_f16 |-> I64(0), layer_q4k |-> I64(0),
     layer_q6k |-> I64(0), layer_q80 |-> I64(0)]

disk_props ==
    [read_seq_bw |-> F0, read_rnd_bw |-> F0,
     write_seq_bw |-> F0, write_rnd_bw |-> F0]

\* device_info() with device_name left null
device_info_NullName ==
    [rank |-> U32(0), device_name |-> NULL, disk |-> disk_props,
     disk_read_bandwidth |-> F0,
     cpu_props |-> cpu_props, memory |-> memory_info,
     gpu_support |-> gpu_support, gpu_props |-> gpu_props,
     model_flops |-> model_flops, model_params |-> model_params]

\* device_info(): the header's members, and disk_read_bandwidth, the disk
\* figure profiler.cpp reads and writes through dev_info (lines 508, 576);
\* like every disk figure of the header it starts at zero
device_info ==
    [rank |-> U32(0), device_name |-> EmptyLit, disk |-> disk_props,
     disk_read_bandwidth |-> F0,
     cpu_props |-> cpu_props, memory |-> memory_info,
     gpu_support |-> gpu_support, gpu_props |-> gpu_props,
     model_flops |-> model_flops, model_params |-> model_params]

\* the five string members, in declaration order
StrPaths ==
    << <<"device_name">>, <<"cpu_props", "name">>,
       <<"cpu_props", "description">>, <<"gpu_props", "name">>,
       <<"gpu_props", "description">> >>

Flags == DOMAIN gpu_support

\* the numeric members (every member but the strings and the flags)
NumPaths ==
    { <<"rank">>, <<"disk_read_bandwidth">> }
    \cup { <<g, f>> : g \in {"disk"}, f \in DOMAIN disk_props }
    \cup { <<g, f>> : g \in {"cpu_props"}, f \in DOMAIN cpu_props \ {"name", "description"} }
    \cup { <<g, f>> : g \in {"memory"}, f \in DOMAIN memory_info }
    \cup { <<g, f>> : g \in {"gpu_props"}, f \in DOMAIN gpu_props \ {"name", "description"} }
    \cup { <<g, f>> : g \in {"model_flops"}, f \in DOMAIN model_flops }
    \cup { <<g, f>> : g \in {"model_params"}, f \in DOMAIN model_params }

Get(r, path) == IF Len(path) = 1 THEN r[path[1]] ELSE r[path[1]][path[2]]

\* the strings of a record as contents
Strings(h, r) == [i \in 1..5 |-> CStr(h, Get(r, StrPaths[i]))]

\* declaration order of the members of memory_info and gpu_support
MemoryInfoOrder ==
    <<"total_physical", "available_physical", "total_swap", "available_swap",
      "cpu_read_ram_bw">>

GpuSupportOrder ==
    <<"metal", "cuda", "vulkan", "kompute", "gpublas", "blas", "sycl">>

\* sizeof(struct memory_info): five floats; sizeof(struct gpu_support): seven bools
sizeof_memory_info == 4 * Len(MemoryInfoOrder)
sizeof_gpu_support == Len(GpuSupportOrder)

\* the object representation of the two structs, and its reading back
MemoryInfoBytes(m) == Concat([i \in 1..5 |-> m[MemoryInfoOrder[i]]])
GpuSupportBytes(g) == [i \in 1..7 |-> BoolByte(g[GpuSupportOrder[i]])]

MemoryInfoOf(bs) ==
    [f \in DOMAIN memory_info |->
        LET i == CHOOSE k \in 1..5 : MemoryInfoOrder[k] = f
        IN  [j \in 1..4 |-> bs[4 * (i - 1) + j]]]

\* GpuSupportOf with cuda read from the byte of metal
GpuSupportOf_CudaFromMetal(bs) ==
    [f \in DOMAIN gpu_support |->
        LET k == CHOOSE j \in 1..7 : GpuSupportOrder[j] = f
        IN  ByteBool(bs[IF k = 2 THEN 1 ELSE k])]

GpuSupportOf(bs) ==
    [f \in DOMAIN gpu_support |->
        ByteBool(bs[CHOOSE k \in 1..7 : GpuSupportOrder[k] = f])]

\* the first n bytes of an object (memcpy with size n from its address)
Obj(bytes, n) == [i \in 1..n |-> IF i <= Len(bytes) THEN bytes[i] ELSE Poison]

-----------------------------------------------------------------------------
(* serialize: profiler.cpp 453-526 *)

\* SerLens with the terminating NUL not counted
SerLens_NoNul(h, r) == [i \in 1..5 |-> strlen(h, Get(r, StrPaths[i]))]

\* lines 455-459: strlen + 1 of the five strings
SerLens(h, r) == [i \in 1..5 |-> strlen(h, Get(r, StrPaths[i])) + 1]

\* TotalSize with room for only one of the two gpu_props floats
TotalSize_OneGpuFloat(lens, W) ==
    4 + W * 5 + lens[1] + lens[2] + lens[3] + lens[4] + lens[5]
      + 4 + 4 + sizeof_memory_info + sizeof_gpu_support + 4

\* lines 461-472
TotalSize(lens, W) ==
    4 + W * 5 + lens[1] + lens[2] + lens[3] + lens[4] + lens[5]
      + 4 + 4 + sizeof_memory_info + sizeof_gpu_support + 4 * 2

\* SerString with the string written before its length
SerString_DataFirst(h, r, lens, W, i) ==
    << [data |-> MemRead(h, Get(r, StrPaths[i]), lens[i]), adv |-> lens[i]],
       [data |-> LEBytes(lens[i], W), adv |-> W] >>

\* one length-prefixed string: lines 482-485 and the four blocks after it
SerString(h, r, lens, W, i) ==
    << [data |-> LEBytes(lens[i], W), adv |-> W],
       [data |-> MemRead(h, Get(r, StrPaths[i]), lens[i]), adv |-> lens[i]] >>

\* lines 477-523: the memcpy calls in order, each with the ptr increment after it
SerChunks(h, r, lens, W) ==
    << [data |-> Obj(r.rank, 4), adv |-> 4] >>
    \o SerString(h, r, lens, W, 1)
    \o SerString(h, r, lens, W, 2)
    \o SerString(h, r, lens, W, 3)
    \o SerString(h, r, lens, W, 4)
    \o SerString(h, r, lens, W, 5)
    \o << [data |-> Obj(r.disk_read_bandwidth, 4), adv |-> 4],
          [data |-> Obj(r.cpu_props.cores, 4), adv |-> 4],
          [data |-> Obj(MemoryInfoBytes(r.memory), sizeof_memory_info),
           adv |-> sizeof_memory_info],
          [data |-> Obj(GpuSupportBytes(r.gpu_support), sizeof_gpu_support),
           adv |-> sizeof_gpu_support],
          [data |-> Obj(r.gpu_props.memory_free, 4), adv |-> 4],
          [data |-> Obj(r.gpu_props.memory_total, 4), adv |-> 0] >>

\* where ptr is at the k-th memcpy: the sum of the increments before it
PtrAt(chunks, k) ==
    Cardinality(UNION {{j} \X (1..chunks[j].adv) : j \in 1..(k - 1)})

\* the memcpy calls run in order from ptr: each byte of the block holds what
\* the last call covering it wrote
RunChunks(h, ptr, chunks) ==
    LET N   == Len(chunks)
        off == [k \in 1..N |-> ptr.o + PtrAt(chunks, k)]
        hits(i) == {k \in 1..N : i - off[k] \in 1..Len(chunks[k].data)}
    IN  [heap |-> [h EXCEPT ![ptr.b].bytes =
                     [i \in 1..Len(@) |->
                        LET K == hits(i) IN
                        IF K = {} THEN @[i]
                        ELSE LET k == CHOOSE m \in K : \A j \in K : j <= m
                             IN  chunks[k].data[i - off[k]]]],
         log |-> [k \in 1..N |-> <<off[k], Len(chunks[k].data)>>]]

serialize(h, r, W) ==
    LET lens  == SerLens(h, r)
        total == TotalSize(lens, W)
        h1    == malloc(h, total)
        b     == Ptr(Len(h1))
        run   == RunChunks(h1, b, SerChunks(h, r, lens, W))
    IN  [heap |-> run.heap, buffer |-> b, ret |-> total, log |-> run.log]

\* strlen of a null or unterminated string is undefined: the call does not return
SerDefined(h, r) == \A i \in 1..5 : strlen(h, Get(r, StrPaths[i])) # Garbage

-----------------------------------------------------------------------------
(* deserialize: profiler.cpp 528-591 *)

At(p, k) == [p EXCEPT !.o = @ + k]

\* DeString storing a pointer into the input buffer instead of a copy
DeString_Alias(h, ptr, W, q) ==
    LET len == FromLE(MemRead(h, ptr, W))
        n   == IF len = Garbage THEN 0 ELSE len
    IN  [ok |-> len # Garbage,
         str |-> At(ptr, W),
         block |-> Block("malloc", <<>>),
         ptr |-> At(ptr, W + n),
         log |-> << <<ptr.o, W>>, <<ptr.o + W, n>> >>]

\* DeString taking the length not to count the terminating NUL: one more byte
\* is copied and skipped
DeString_PlusNul(h, ptr, W, q) ==
    LET len == FromLE(MemRead(h, ptr, W))
        n   == IF len = Garbage THEN 0 ELSE len + 1
    IN  [ok |-> len # Garbage,
         str |-> Ptr(q),
         block |-> Block("malloc", MemRead(h, At(ptr, W), n)),
         ptr |-> At(ptr, W + n),
         log |-> << <<ptr.o, W>>, <<ptr.o + W, n>> >>]

\* one string: read the size_t length at ptr, malloc that many bytes (the block
\* malloc returns here is block q), copy them, advance ptr (lines 535-541 and
\* the four blocks after it)
DeString(h, ptr, W, q) ==
    LET len == FromLE(MemRead(h, ptr, W))
        n   == IF len = Garbage THEN 0 ELSE len
    IN  [ok |-> len # Garbage,
         str |-> Ptr(q),
         block |-> Block("malloc", MemRead(h, At(ptr, W), n)),
         ptr |-> At(ptr, W + n),
         log |-> << <<ptr.o, W>>, <<ptr.o + W, n>> >>]

deserialize(h, buffer, r, W) ==
    LET q  == Len(h)
        s1 == DeString(h, At(buffer, 4), W, q + 1)
        s2 == DeString(h, s1.ptr, W, q + 2)
        s3 == DeString(h, s2.ptr, W, q + 3)
        s4 == DeString(h, s3.ptr, W, q + 4)
        s5 == DeString(h, s4.ptr, W, q + 5)
        p0 == s5.ptr
        p1 == At(p0, 4)
        p2 == At(p1, 4)
        p3 == At(p2, sizeof_memory_info)
        p4 == At(p3, sizeof_gpu_support)
        p5 == At(p4, 4)
        rec == [r EXCEPT
                  !.rank = MemRead(h, buffer, 4),
                  !.device_name = s1.str,
                  !.cpu_props.name = s2.str,
                  !.cpu_props.description = s3.str,
                  !.gpu_props.name = s4.str,
                  !.gpu_props.description = s5.str,
                  !.disk_read_bandwidth = MemRead(h, p0, 4),
                  !.cpu_props.cores = MemRead(h, p1, 4),
                  !.memory = MemoryInfoOf(MemRead(h, p2, sizeof_memory_info)),
                  !.gpu_support = GpuSupportOf(MemRead(h, p3, sizeof_gpu_support)),
                  !.gpu_props.memory_free = MemRead(h, p4, 4),
                  !.gpu_props.memory_total = MemRead(h, p5, 4)]
    IN  [heap |-> h \o <<s1.block, s2.block, s3.block, s4.block, s5.block>>,
         rec |-> rec,
         ok |-> s1.ok /\ s2.ok /\ s3.ok /\ s4.ok /\ s5.ok,
         log |-> << <<buffer.o, 4>> >>
                 \o s1.log \o s2.log \o s3.log \o s4.log \o s5.log
                 \o << <<p0.o, 4>>, <<p1.o, 4>>,
                       <<p2.o, sizeof_memory_info>>,
                       <<p3.o, sizeof_gpu_support>>,
                       <<p4.o, 4>>, <<p5.o, 4>> >>]

-----------------------------------------------------------------------------
(* Populating a record: the inputs *)

Chars == {97, 98}

RECURSIVE SeqsUpTo(_)
SeqsUpTo(n) ==
    IF n = 0 THEN {<<>>}
    ELSE LET S == SeqsUpTo(n - 1)
         IN  S \cup {Append(s, c) : s \in {t \in S : Len(t) = n - 1}, c \in Chars}

Strs == SeqsUpTo(MaxStrLen)

\* "node-a"
NodeA == <<110, 111, 100, 101, 45, 97>>

NoStrs == [i \in 1..5 |-> <<>>]
NoFlags == gpu_support

\* a populated record differs from device_info() in its strings, in a set of
\* numeric members holding a non-zero value, and in its flags
\* at most two of the five strings non-empty
StrInputs ==
    {[strs |-> [NoStrs EXCEPT ![i] = a, ![j] = b], nums |-> {}, flags |-> NoFlags] :
        i \in 1..5, j \in 1..5, a \in Strs, b \in Strs}

NumInputs ==
    {[strs |-> NoStrs, nums |-> {p}, flags |-> NoFlags] : p \in NumPaths}

FlagInputs ==
    {[strs |-> NoStrs, nums |-> {}, flags |-> g] : g \in [Flags -> BOOLEAN]}

\* rank and device_name only
MinimalInputs ==
    {[strs |-> [NoStrs EXCEPT ![1] = n], nums |-> {<<"rank">>}, flags |-> NoFlags] :
        n \in Strs \cup {NodeA}}

\* every member non-default, the strings distinct, the flags alternating
FullInput ==
    [strs |-> <<NodeA, <<99>>, <<99, 100>>, <<103>>, <<103, 100>>>>,
     nums |-> NumPaths,
     flags |-> [f \in Flags |-> f \in {"metal", "vulkan", "gpublas", "sycl"}]]

Inputs == StrInputs \cup NumInputs \cup FlagInputs \cup MinimalInputs \cup {FullInput}

\* the non-zero value a numeric member is given
NonDefault(path) ==
    IF path = <<"rank">> THEN U32(3)
    ELSE IF path = <<"cpu_props", "cores">> THEN U32(8)
    ELSE IF Len(Get(device_info, path)) = 8 THEN I64(7)
    ELSE IF path[1] = "gpu_props" THEN F2
    ELSE F1

\* a struct with the chosen numeric members set
Fill(g, default, nums) ==
    [f \in DOMAIN default |->
        IF <<g, f>> \in nums THEN NonDefault(<<g, f>>) ELSE default[f]]

\* the record an input describes, its strings stored in blocks k+1 .. k+5
RecordOf(in, k) ==
    [rank |-> IF <<"rank">> \in in.nums THEN NonDefault(<<"rank">>) ELSE U32(0),
     device_name |-> Ptr(k + 1),
     disk |-> Fill("disk", disk_props, in.nums),
     disk_read_bandwidth |->
        IF <<"disk_read_bandwidth">> \in in.nums
        THEN NonDefault(<<"disk_read_bandwidth">>) ELSE F0,
     cpu_props |-> [Fill("cpu_props", cpu_props, in.nums) EXCEPT
                      !.name = Ptr(k + 2), !.description = Ptr(k + 3)],
     memory |-> Fill("memory", memory_info, in.nums),
     gpu_support |-> in.flags,
     gpu_props |-> [Fill("gpu_props", gpu_props, in.nums) EXCEPT
                      !.name = Ptr(k + 4), !.description = Ptr(k + 5)],
     model_flops |-> Fill("model_flops", model_flops, in.nums),
     model_params |-> Fill("model_params", model_params, in.nums)]

StringBlocks(in) == [i \in 1..5 |-> Block("producer", in.strs[i] \o <<0>>)]

-----------------------------------------------------------------------------
(* The codec and its caller *)


CodecInit ==
    /\ heap = << Block("static", <<0>>) >>
    /\ src = device_info
    /\ dst = device_info
    /\ buf = NULL
    /\ ser_n = 0
    /\ ser_log = <<>>
    /\ de_log = <<>>
    /\ pc = "constructed"
    /\ buf_state = "none"
    /\ ndecodes = 0
    /\ wordsize \in {4, 8}

\* the producer fills the freshly constructed record
Populate(in) ==
    /\ pc = "constructed"
    /\ heap' = heap \o StringBlocks(in)
    /\ src' = RecordOf(in, Len(heap))
    /\ pc' = "populated"
    /\ UNCHANGED <<dst, buf, ser_n, ser_log, de_log, buf_state, ndecodes,
                   wordsize, bench, ncalls, os>>

\* size_t n = serialize(&src, &buf)
Serialize ==
    /\ pc \in {"constructed", "populated"}
    /\ IF SerDefined(heap, src)
       THEN LET res == serialize(heap, src, wordsize) IN
            /\ heap' = res.heap
            /\ buf' = res.buffer
            /\ ser_n' = res.ret
            /\ ser_log' = res.log
            /\ pc' = "serialized"
            /\ buf_state' = "valid"
       ELSE /\ pc' = "crashed"
            /\ UNCHANGED <<heap, buf, ser_n, ser_log, buf_state>>
    /\ UNCHANGED <<src, dst, de_log, ndecodes, wordsize, bench, ncalls, os>>

\* deserialize(buf, &dst)
Deserialize ==
    /\ pc \in {"serialized", "deserialized"}
    /\ buf_state = "valid"
    /\ ndecodes < MaxDecodes
    /\ LET res == deserialize(heap, buf, dst, wordsize) IN
       IF res.ok
       THEN /\ heap' = res.heap
            /\ dst' = res.rec
            /\ de_log' = res.log
            /\ pc' = "deserialized"
            /\ ndecodes' = ndecodes + 1
       ELSE /\ pc' = "crashed"
            /\ UNCHANGED <<heap, dst, de_log, ndecodes>>
    /\ UNCHANGED <<src, buf, ser_n, ser_log, buf_state, wordsize, bench, ncalls, os>>

\* the caller releases the buffer it owns
FreeBuffer ==
    /\ pc \in {"serialized", "deserialized"}
    /\ buf_state \in {"valid", "overwritten"}
    /\ heap' = [heap EXCEPT ![buf.b].live = FALSE]
    /\ buf_state' = "freed"
    /\ UNCHANGED <<src, dst, buf, ser_n, ser_log, de_log, pc, ndecodes,
                   wordsize, bench, ncalls, os>>

\* the caller reuses the buffer: every byte of it overwritten with x
OverwriteBuffer(x) ==
    /\ pc \in {"serialized", "deserialized"}
    /\ buf_state = "valid"
    /\ heap' = [heap EXCEPT ![buf.b].bytes = [i \in 1..Len(@) |-> x]]
    /\ buf_state' = "overwritten"
    /\ UNCHANGED <<src, dst, buf, ser_n, ser_log, de_log, pc, ndecodes,
                   wordsize, bench, ncalls, os>>

Init ==
    /\ CodecInit
    /\ bench = [disk |-> [path |-> "none"], mem |-> [path |-> "none"]]
    /\ ncalls = 0
    /\ os = [fn |-> "none"]

Next ==
    \/ \E in \in Inputs : Populate(in)
    \/ Serialize
    \/ Deserialize
    \/ FreeBuffer
    \/ \E x \in {0, 255} : OverwriteBuffer(x)

Spec == Init /\ [][Next]_vars

-----------------------------------------------------------------------------
(* Claims about the codec *)

Decoded == pc = "deserialized"
Encoded == pc \in {"serialized", "deserialized"}

\* the members serialize writes (lines 477-523)
WirePaths ==
    { <<"rank">>, <<"disk_read_bandwidth">>, <<"cpu_props", "cores">>,
      <<"gpu_props", "memory_free">>, <<"gpu_props", "memory_total">> }
    \cup { <<"memory", f>> : f \in DOMAIN memory_info }

IsZeroBytes(bs) == \A i \in 1..Len(bs) : bs[i] = 0

\* r has the same contents as q in every member: strings, numbers, flags
SameRecord(h, r, q) ==
    /\ Strings(h, r) = Strings(h, q)
    /\ \A i \in 1..5 : Strings(h, r)[i] # BadStr
    /\ \A p \in NumPaths : Get(r, p) = Get(q, p)
    /\ r.gpu_support = q.gpu_support

\* C1: after serialize and deserialize, every member of the decoded record
\* (the five strings, every numeric member, the flags) equals the source's
C1_RoundTripAllFields == Decoded => SameRecord(heap, dst, src)

\* only rank and device_name differ from the constructor's values
IsMinimal(h, r) ==
    /\ \A p \in NumPaths \ {<<"rank">>} : Get(r, p) = Get(device_info, p)
    /\ r.gpu_support = gpu_support
    /\ \A i \in 2..5 : Strings(h, r)[i] = <<>>
    /\ Strings(h, r)[1] # BadStr

\* C2: a record with only rank and device_name set decodes, into a freshly
\* constructed record, to the same rank and device_name and defaults elsewhere
C2_MinimalRoundTrip ==
    (Decoded /\ ndecodes = 1 /\ IsMinimal(heap, src)) =>
        /\ dst.rank = src.rank
        /\ Strings(heap, dst)[1] = Strings(heap, src)[1]
        /\ IsMinimal(heap, dst)

C2_Witness ==
    /\ Decoded /\ ndecodes = 1 /\ IsMinimal(heap, src)
    /\ src.rank = <<3, 0, 0, 0>>
    /\ Strings(heap, src)[1] = NodeA
    /\ dst.rank = <<3, 0, 0, 0>>
    /\ Strings(heap, dst)[1] = NodeA

\* the size the claim states for a record
StatedSize(h, r, W) ==
    LET S == Strings(h, r) IN
    4 + 5 * W + (Len(S[1]) + 1) + (Len(S[2]) + 1) + (Len(S[3]) + 1)
      + (Len(S[4]) + 1) + (Len(S[5]) + 1)
      + 4 + 4 + sizeof_memory_info + sizeof_gpu_support + 8

\* C3: serialize returns the exact length of a fresh buffer: the returned size
\* is the stated total, the block has that many bytes, the last write ends
\* there and no write lands outside it
C3_SerializeExactSize ==
    Encoded =>
        /\ ser_n = StatedSize(heap, src, wordsize)
        /\ Len(heap[buf.b].bytes) = ser_n
        /\ heap[buf.b].kind = "malloc"
        /\ buf.o = 0
        /\ \A i \in 1..5 : Get(src, StrPaths[i]).b # buf.b
        /\ LET last == ser_log[Len(ser_log)] IN last[1] + last[2] = ser_n
        /\ \A k \in 1..Len(ser_log) :
              ser_log[k][1] >= 0 /\ ser_log[k][1] + ser_log[k][2] <= ser_n

C3_Witness ==
    /\ pc = "serialized"
    /\ Len(ser_log) = 17
    /\ \E i \in 1..5 : Strings(heap, src)[i] # <<>>
    /\ ser_n > 4 + 5 * wordsize + 5 + 4 + 4 + sizeof_memory_info + sizeof_gpu_support + 8

\* the five string pointers of the decoded record
DstPtrs == [i \in 1..5 |-> Get(dst, StrPaths[i])]

\* C4: deserialize stores five fresh blocks of its own, distinct from one
\* another and from the input buffer, so releasing or overwriting the buffer
\* afterwards leaves the record's strings unchanged
C4_DecodeNoAlias ==
    /\ [](Decoded =>
            /\ \A i \in 1..5 :
                  /\ DstPtrs[i].b = Len(heap) - 5 + i
                  /\ DstPtrs[i].o = 0
                  /\ DstPtrs[i].b # buf.b
                  /\ heap[DstPtrs[i].b].kind = "malloc"
                  /\ heap[DstPtrs[i].b].live
            /\ \A i, j \in 1..5 : i # j => DstPtrs[i].b # DstPtrs[j].b)
    /\ [][(Decoded /\ buf_state' # buf_state) =>
            /\ Strings(heap', dst') = Strings(heap, dst)
            /\ \A i \in 1..5 : Strings(heap', dst')[i] # BadStr]_vars

C4_Witness ==
    /\ Decoded
    /\ buf_state \in {"freed", "overwritten"}
    /\ \E i \in 1..5 : Strings(heap, dst)[i] \notin {<<>>, BadStr}
    /\ Strings(heap, dst) = Strings(heap, src)

\* the byte stream the claim states for a record
StatedWire(h, r, W) ==
    LET S == Strings(h, r)
        Str(i) == LEBytes(Len(S[i]) + 1, W) \o S[i] \o <<0>>
    IN  r.rank \o Str(1) \o Str(2) \o Str(3) \o Str(4) \o Str(5)
        \o r.disk_read_bandwidth \o r.cpu_props.cores
        \o r.memory.total_physical \o r.memory.available_physical
        \o r.memory.total_swap \o r.memory.available_swap
        \o r.memory.cpu_read_ram_bw
        \o << BoolByte(r.gpu_support.metal), BoolByte(r.gpu_support.cuda),
              BoolByte(r.gpu_support.vulkan), BoolByte(r.gpu_support.kompute),
              BoolByte(r.gpu_support.gpublas), BoolByte(r.gpu_support.blas),
              BoolByte(r.gpu_support.sycl) >>
        \o r.gpu_props.memory_free \o r.gpu_props.memory_total

\* C5: the buffer holds the fields in the stated order and widths, and
\* deserialize reads the same offsets and widths into the same members
C5_WireLayout ==
    /\ (Encoded /\ buf_state = "valid") =>
          heap[buf.b].bytes = StatedWire(heap, src, wordsize)
    /\ Decoded =>
          /\ de_log = ser_log
          /\ Strings(heap, dst) = Strings(heap, src)
          /\ \A p \in WirePaths : Get(dst, p) = Get(src, p)
          /\ dst.gpu_support = src.gpu_support

C5_Witness ==
    /\ Decoded /\ buf_state = "valid"
    /\ Strings(heap, src) = FullInput.strs
    /\ \A p \in WirePaths : ~IsZeroBytes(Get(src, p))
    /\ heap[buf.b].bytes[5] = 7
    /\ Len(de_log) = 17

\* C13: deserialize of the buffer serialize produced completes, reads only
\* offsets in [0, n), n the size serialize returned, and reads exactly n
\* bytes: the reads start at 0, each starts where the one before ended, the
\* last ends at n, and each string read has the length serialize wrote for
\* that field (its strlen + 1)
C13_DecodeReadsWithinBuffer ==
    /\ pc # "crashed"
    /\ Decoded =>
          /\ \A k \in 1..Len(de_log) :
                de_log[k][1] >= 0 /\ de_log[k][1] + de_log[k][2] <= ser_n
          /\ de_log[1][1] = 0
          /\ \A k \in 1..(Len(de_log) - 1) :
                de_log[k + 1][1] = de_log[k][1] + de_log[k][2]
          /\ LET last == de_log[Len(de_log)] IN last[1] + last[2] = ser_n
          /\ \A i \in 1..5 :
                /\ de_log[2 * i][2] = wordsize
                /\ de_log[2 * i + 1][2] = Len(Strings(heap, src)[i]) + 1

C13_Witness ==
    /\ Decoded
    /\ ndecodes = 1
    /\ \E i \in 1..5 : de_log[2 * i + 1][2] > 1
    /\ de_log[Len(de_log)][1] + 4 = ser_n
    /\ ser_n = Len(heap[buf.b].bytes)

\* the blocks deserialize has allocated: serialize allocates the buffer, the
\* last block before the first decode, and every block after it is a string
\* block of a deserialize call
DecodedBlocks == {b \in DOMAIN heap : Encoded /\ b > buf.b}

\* the string fields of the two records that point into block b
Owners(b) ==
    {<<rec, i>> \in {"src", "dst"} \X (1..5) :
        Get(IF rec = "src" THEN src ELSE dst, StrPaths[i]).b = b}

\* C14: after any sequence of serialize and deserialize calls, deserialize
\* called again on the same record included, every block deserialize has
\* allocated and that has not been released is referenced by exactly one
\* string field of exactly one record
C14_SingleOwnership ==
    \A b \in DecodedBlocks :
        heap[b].live => Cardinality(Owners(b)) = 1

\* r with flag f flipped
Flip(r, f) == [r EXCEPT !.gpu_support[f] = ~@]

\* serialize r, then deserialize into a freshly constructed record
RoundTrip(h, r, W) ==
    LET e == serialize(h, r, W)
        d == deserialize(e.heap, e.buffer, device_info, W)
    IN  [heap |-> d.heap, rec |-> d.rec]

\* C6: every combination of the seven flags is reproduced, and flipping one
\* flag of the input flips that flag of the decoded record and nothing else
C6_FlagsIndependent ==
    Decoded =>
        /\ dst.gpu_support = src.gpu_support
        /\ (ndecodes = 1 /\ buf_state = "valid") => \A f \in Flags :
              LET rt == RoundTrip(heap, Flip(src, f), wordsize) IN
              /\ rt.rec.gpu_support = [dst.gpu_support EXCEPT ![f] = ~@]
              /\ Strings(rt.heap, rt.rec) = Strings(heap, dst)
              /\ \A p \in NumPaths : Get(rt.rec, p) = Get(dst, p)

C6_Witness ==
    /\ Decoded
    /\ src.gpu_support.cuda /\ ~src.gpu_support.metal /\ src.gpu_support.sycl
    /\ ~src.gpu_support.blas
    /\ dst.gpu_support = src.gpu_support

\* every member of r has its zero value, every string is the empty string
IsDefault(h, r) ==
    /\ \A p \in NumPaths : IsZeroBytes(Get(r, p))
    /\ \A f \in Flags : r.gpu_support[f] = FALSE
    /\ \A i \in 1..5 : Get(r, StrPaths[i]) # NULL /\ Strings(h, r)[i] = <<>>

\* C7: a freshly constructed record is all zero, all flags false, all strings
\* empty and non-null, so strlen in serialize is defined for it
C7_ZeroDefault ==
    /\ pc = "constructed" => (IsDefault(heap, src) /\ SerDefined(heap, src))
    /\ ndecodes = 0 => IsDefault(heap, dst)
    /\ IsDefault(heap, src) => pc # "crashed"

C7_Witness ==
    /\ pc = "serialized"
    /\ IsDefault(heap, src)
    /\ ser_n = 4 + 5 * wordsize + 5 + 4 + 4 + sizeof_memory_info + sizeof_gpu_support + 8

-----------------------------------------------------------------------------
(* The benchmarks: profiler.cpp 197-273 *)

\* bytes in a megabyte (the * 1024 * 1024 of lines 199 and 240)
MB == 1024 * 1024

\* the clock readings differ by ticks / TicksPerSec seconds; the difference of
\* two high_resolution_clock readings may be zero or negative
TicksPerSec == 4
Ticks == (0 - 1)..MaxTicks

\* what the vector constructor throws
Throws == {"none", "bad_alloc", "length_error"}

\* a handler for std::logic_error only
CaughtAsStdException_LogicOnly(e) == e \in {"length_error"}

\* catch (const std::exception &): both are derived from std::exception
CaughtAsStdException(e) == e \in {"bad_alloc", "length_error"}

\* a double: a rational num/den, or an infinity or NaN of the IEEE arithmetic
Fin(n, d) == [kind |-> "fin", num |-> n, den |-> d]
Inf == [kind |-> "inf", num |-> 0, den |-> 1]
NegInf == [kind |-> "-inf", num |-> 0, den |-> 1]
NaN == [kind |-> "nan", num |-> 0, den |-> 1]

\* static_cast<double>(size) / elapsed.count(), elapsed = ticks / TicksPerSec
DivDouble(size, ticks) ==
    IF ticks = 0
    THEN IF size = 0 THEN NaN ELSE Inf
    ELSE IF ticks > 0 THEN Fin(size * TicksPerSec, ticks)
    ELSE Fin(0 - size * TicksPerSec, 0 - ticks)

\* (a + b) / 2.0
MeanDouble(a, b) ==
    IF a.kind = "nan" \/ b.kind = "nan" THEN NaN
    ELSE IF a.kind = "inf" THEN (IF b.kind = "-inf" THEN NaN ELSE Inf)
    ELSE IF a.kind = "-inf" THEN (IF b.kind = "inf" THEN NaN ELSE NegInf)
    ELSE IF b.kind # "fin" THEN b
    ELSE Fin(a.num * b.den + b.num * a.den, 2 * a.den * b.den)

\* static_cast<uint64_t>(x) is defined when the truncated value is representable
CastDefined(x) == x.kind = "fin" /\ x.num > 0 - x.den

\* truncation toward zero
CastU64(x) == IF x.num < 0 THEN 0 ELSE x.num \div x.den

\* the values an undefined conversion is taken to produce: zero or a non-zero one
UBResults == {0, 1}

\* a buffer that is never released
BufferScopeExit_Leak(n) == n

\* std::vector<char> buffer is an automatic object of the try block: its
\* destructor releases the storage on every way out of the block after its
\* construction (return, exception, end of block); of n buffers none is left
BufferScopeExit(n) == 0

\* device_disk_read_bw(test_file, buffer_size_mb): the file opens or not and
\* holds file_mb megabytes, the vector constructor throws thrown, the read
\* takes ticks; held counts the buffers of the call alive after its return
device_disk_read_bw(mb, open, file_mb, thrown, ticks) ==
    LET buffer_size == mb * MB
        env == [mb |-> mb, open |-> open, file_mb |-> file_mb,
                thrown |-> thrown, ticks |-> ticks]
        out(path, speed, raised, held) ==
            [path |-> path, ret |-> speed, raised |-> raised, ub |-> FALSE,
             held |-> held, env |-> env]
    IN  IF ~open THEN out("open_failed", 0, FALSE, 0)
        ELSE IF thrown # "none"
        THEN out("exception", 0, ~CaughtAsStdException(thrown), 0)
        ELSE IF file_mb * MB < buffer_size
        THEN out("short_read", 0, FALSE, BufferScopeExit(1))
        ELSE IF ticks > 0
        THEN out("measured", CastU64(DivDouble(buffer_size, ticks)), FALSE,
                 BufferScopeExit(1))
        ELSE out("measured", 0, FALSE, BufferScopeExit(1))

\* device_memory_bw(buffer_size_mb): the vector constructor throws thrown, the
\* fill takes wticks and the strided read rticks; u is what an undefined
\* conversion produces
device_memory_bw(mb, thrown, wticks, rticks, u) ==
    LET test_size   == mb * MB
        write_speed == DivDouble(test_size, wticks)
        read_speed  == DivDouble(test_size, rticks)
        avg         == MeanDouble(write_speed, read_speed)
        env == [mb |-> mb, thrown |-> thrown, wticks |-> wticks,
                rticks |-> rticks]
    IN  IF thrown # "none"
        THEN [path |-> "exception", ret |-> 0,
              raised |-> ~CaughtAsStdException(thrown), ub |-> FALSE,
              held |-> 0, env |-> env]
        ELSE IF CastDefined(avg)
        THEN [path |-> "measured", ret |-> CastU64(avg), raised |-> FALSE,
              ub |-> FALSE, held |-> BufferScopeExit(1), env |-> env]
        ELSE [path |-> "measured", ret |-> u, raised |-> FALSE, ub |-> TRUE,
              held |-> BufferScopeExit(1), env |-> env]

\* an empty vector allocates nothing, so its constructor does not throw; a
\* call that returns before a step takes nothing from that step: no file size
\* and no vector without an open file, no clock difference without the second
\* clock reading
DiskReadBw(mb, open, file_mb, thrown, ticks) ==
    /\ ncalls < MaxCalls
    /\ mb = 0 => thrown = "none"
    /\ ~open => (file_mb = 0 /\ thrown = "none")
    /\ (~open \/ thrown # "none" \/ file_mb < mb) => ticks = 0
    /\ bench' = [bench EXCEPT
                   !.disk = device_disk_read_bw(mb, open, file_mb, thrown, ticks)]
    /\ ncalls' = ncalls + 1
    /\ UNCHANGED <<codec_vars, os>>

MemoryBw(mb, thrown, wticks, rticks, u) ==
    /\ ncalls < MaxCalls
    /\ mb = 0 => thrown = "none"
    /\ thrown # "none" => (wticks = 0 /\ rticks = 0)
    /\ bench' = [bench EXCEPT
                   !.mem = device_memory_bw(mb, thrown, wticks, rticks, u)]
    /\ ncalls' = ncalls + 1
    /\ UNCHANGED <<codec_vars, os>>

BenchNext ==
    \/ \E mb \in 0..MaxBufMb, open \in BOOLEAN, file_mb \in 0..MaxFileMb,
          thrown \in Throws, ticks \in Ticks :
            DiskReadBw(mb, open, file_mb, thrown, ticks)
    \/ \E mb \in 0..MaxBufMb, thrown \in Throws, wticks \in Ticks,
          rticks \in Ticks, u \in UBResults :
            MemoryBw(mb, thrown, wticks, rticks, u)

SpecBench == Init /\ [][BenchNext]_vars

\* C8: the disk benchmark returns 0 when the file cannot be opened or is
\* shorter than the buffer, never raises (an allocation exception included),
\* and returns non-zero only after a complete read with positive elapsed time
C8_DiskFailsSoft ==
    LET d == bench.disk IN
    d.path # "none" =>
        /\ (~d.env.open \/ d.env.file_mb * MB < d.env.mb * MB) => d.ret = 0
        /\ ~d.raised
        /\ d.ret # 0 =>
              /\ d.env.open
              /\ d.env.thrown = "none"
              /\ d.env.file_mb * MB >= d.env.mb * MB
              /\ d.env.ticks > 0

C8_Witness ==
    /\ bench.disk.path = "exception"
    /\ bench.disk.env.thrown = "bad_alloc"
    /\ bench.disk.env.open
    /\ bench.disk.ret = 0
    /\ ~bench.disk.raised

\* C9: for a buffer size > 0 the memory benchmark returns a defined value > 0
\* on every run that completes without an exception, and 0 only on an exception
C9_MemoryBwPositive ==
    LET m == bench.mem IN
    /\ (m.path = "measured" /\ m.env.mb > 0) => (m.ret > 0 /\ ~m.ub)
    /\ (m.path # "none" /\ m.env.mb > 0 /\ m.ret = 0) => m.path = "exception"

\* the calls that fail: no file, a short file, an exception
Failed(r) == r.path \in {"open_failed", "short_read", "exception"}

\* the result of the call recorded in r, made as the first call of a run
DiskAlone(r) ==
    device_disk_read_bw(r.env.mb, r.env.open, r.env.file_mb, r.env.thrown,
                        r.env.ticks)

MemAlone(r) ==
    device_memory_bw(r.env.mb, r.env.thrown, r.env.wticks, r.env.rticks,
                     IF r.ub THEN r.ret ELSE 0)

C12_MemoryBwMean ==
    LET m         == bench.mem
        test_size == m.env.mb * MB
        w         == m.env.wticks
        r         == m.env.rticks
        sgn       == IF w * r < 0 THEN 0 - 1 ELSE 1
        num       == sgn * test_size * TicksPerSec * (r + w)
        den       == sgn * 2 * w * r
    IN  m.path = "measured" =>
            /\ w # 0 /\ r # 0
            /\ num > 0 - den
            /\ m.ret = (IF num < 0 THEN 0 ELSE num \div den)

-----------------------------------------------------------------------------
(* The OS queries: profiler.cpp 26-195 *)

Platforms == {"windows", "linux", "apple", "other"}

\* the fallback names of lines 32, 36, 40 and 43
FallbackName(platform) ==
    CASE platform = "windows" -> "Unknown Windows Device"
      [] platform = "linux"   -> "Unknown Linux Device"
      [] platform = "apple"   -> "Unknown Mac Device"
      [] OTHER                -> "Unknown Device"

\* an OS call: whether it succeeds and the value it reports
Calls(vals) == [ok : BOOLEAN, val : vals]

\* device_name(): q is GetComputerNameA / gethostname
device_name(platform, q) ==
    IF platform = "other" THEN FallbackName(platform)
    ELSE IF ~q.ok THEN FallbackName(platform)
    ELSE "host"

\* device_cpu_cores(): q1 is GetSystemInfo / sysconf / sysctl(HW_AVAILCPU),
\* q2 is sysctl(HW_NCPU); a failed sysconf returns -1, a failed sysctl leaves
\* core_count as it was
device_cpu_cores(platform, q1, q2) ==
    LET core_count == 1 IN
    CASE platform = "windows" -> U32(q1.val)
      [] platform = "linux"   -> U32(IF q1.ok THEN q1.val ELSE 0 - 1)
      [] platform = "apple"   ->
            LET c1 == IF q1.ok THEN q1.val ELSE core_count IN
            IF ~q1.ok \/ c1 < 1
            THEN LET c2 == IF q2.ok THEN q2.val ELSE c1 IN
                 IF ~q2.ok \/ c2 < 1 THEN U32(1) ELSE U32(c2)
            ELSE U32(c1)
      [] OTHER                -> U32(core_count)

\* device_physical_memory(available): q is GlobalMemoryStatusEx, whose result
\* is not looked at (junk is what an unfilled MEMORYSTATUSEX holds) / the
\* MemAvailable line of /proc/meminfo (in kB) or sysinfo / host_statistics64
\* or sysctl(HW_MEMSIZE), which leaves memory as it was when it fails
device_physical_memory(platform, available, q, junk) ==
    LET memory == 0 IN
    CASE platform = "windows" ->
            IF available THEN (IF q.ok THEN q.val ELSE junk)
            ELSE (IF q.ok THEN q.val ELSE junk)
      [] platform = "linux"   ->
            IF available THEN (IF q.ok THEN q.val * 1024 ELSE memory)
            ELSE (IF q.ok THEN q.val ELSE memory)
      [] platform = "apple"   ->
            IF available THEN (IF q.ok THEN q.val ELSE memory)
            ELSE (IF q.ok THEN q.val ELSE memory)
      [] OTHER                -> memory

\* device_swap_memory(available): q is GetPerformanceInfo / the SwapFree or
\* SwapTotal line of /proc/meminfo (in kB) / sysctl(VM_SWAPUSAGE)
device_swap_memory(platform, available, q) ==
    LET swap_memory == 0
        free_swap   == IF q.ok THEN q.val * 1024 ELSE 0
        total_swap  == IF q.ok THEN q.val * 1024 ELSE 0
    IN
    CASE platform = "windows" -> IF q.ok THEN q.val ELSE swap_memory
      [] platform = "linux"   -> IF available THEN free_swap ELSE total_swap
      [] platform = "apple"   -> IF q.ok THEN q.val ELSE swap_memory
      [] OTHER                -> swap_memory

QueryName(platform, q) ==
    /\ os' = [fn |-> "name", platform |-> platform, env |-> <<q>>,
              failed |-> platform = "other" \/ ~q.ok,
              ret |-> device_name(platform, q)]
    /\ UNCHANGED <<codec_vars, bench, ncalls>>

\* GetSystemInfo cannot fail
QueryCores(platform, q1, q2) ==
    /\ platform = "windows" => (q1.ok /\ q1.val >= 1)
    /\ platform = "linux" => q1.val >= 1
    /\ os' = [fn |-> "cores", platform |-> platform, env |-> <<q1, q2>>,
              failed |-> \/ platform = "other"
                         \/ platform = "linux" /\ ~q1.ok
                         \/ platform = "apple" /\ ~q1.ok /\ ~q2.ok,
              ret |-> device_cpu_cores(platform, q1, q2)]
    /\ UNCHANGED <<codec_vars, bench, ncalls>>

QueryPhysicalMemory(platform, available, q, junk) ==
    /\ os' = [fn |-> "physical", platform |-> platform,
              env |-> <<available, q, junk>>,
              failed |-> platform = "other" \/ ~q.ok,
              ret |-> device_physical_memory(platform, available, q, junk)]
    /\ UNCHANGED <<codec_vars, bench, ncalls>>

QuerySwapMemory(platform, available, q) ==
    /\ os' = [fn |-> "swap", platform |-> platform, env |-> <<available, q>>,
              failed |-> platform = "other" \/ ~q.ok,
              ret |-> device_swap_memory(platform, available, q)]
    /\ UNCHANGED <<codec_vars, bench, ncalls>>

OSNext ==
    \/ \E pf \in Platforms, q \in Calls({0}) : QueryName(pf, q)
    \/ \E pf \in Platforms, q1, q2 \in Calls(0..MaxCores) : QueryCores(pf, q1, q2)
    \/ \E pf \in Platforms, a \in BOOLEAN, q \in Calls(1..MaxKb), junk \in 0..MaxKb :
          QueryPhysicalMemory(pf, a, q, junk)
    \/ \E pf \in Platforms, a \in BOOLEAN, q \in Calls(0..MaxKb) :
          QuerySwapMemory(pf, a, q)

SpecOS == Init /\ [][OSNext]_vars

\* C10: on an unrecognized platform or a failed query, the core count is 1,
\* physical and swap memory are 0 and the name is the platform's fallback
C10_OSQueryDefaults ==
    os.fn # "none" /\ os.failed =>
        CASE os.fn = "cores"    -> os.ret = <<1, 0, 0, 0>>
          [] os.fn = "physical" -> os.ret = 0
          [] os.fn = "swap"     -> os.ret = 0
          [] os.fn = "name"     -> os.ret = FallbackName(os.platform)

====
